---- MODULE Spec2Model ----
(***************************************************************************)
(* Model of libcamera's 2D plane transforms (src/libcamera/transform.cpp). *)
(*                                                                         *)
(* A Transform is a 3-bit value: bit 0 = horizontal flip, bit 1 = vertical *)
(* flip, bit 2 = transposition.  The module models the composition         *)
(* operator*, the inversion operator-, the bitwise complement operator~,   *)
(* transformFromRotation() and transformToString(), together with the      *)
(* geometric effect on the rectangle A-B/C-D that the enum documentation   *)
(* gives for each of the 8 values.                                         *)
(*                                                                         *)
(* All of these are pure functions.  The state machine is a caller that    *)
(* draws its operands at start-up and then evaluates expressions built     *)
(* from them, one call per step, storing every returned value in res.      *)
(***************************************************************************)
EXTENDS Integers, Sequences, FiniteSets, TLC

VARIABLES
    expr,    \* which family of expressions the caller evaluates
    a, b, c, \* Transform operands
    angle,   \* int operand of transformFromRotation
    angle2,  \* second int operand (a whole number of quarter turns)
    res      \* the values returned so far: result name -> value

vars == <<expr, a, b, c, angle, angle2, res>>

----------------------------------------------------------------------------
(* Bounds of the model. *)

\* angle ranges over every integer of -90*MaxTurns .. 90*MaxTurns, angle2
\* over the multiples of 90 of that range.
MaxTurns == 5

----------------------------------------------------------------------------
(* enum class Transform *)

Identity == 0
HFlip == 1
VFlip == 2
HVFlip == 3
Transpose == 4
Rot270 == 5
Rot90 == 6
Rot180Transpose == 7

Rot0 == Identity
Rot180 == HVFlip

Transforms == Identity..Rot180Transpose

\* INT_MAX of the 32-bit int that transformFromRotation takes.
IntMax == 2147483647

----------------------------------------------------------------------------
(* Bitwise operators on the 3-bit encoding. *)

Bit(t, k) == (t \div (2 ^ k)) % 2

BitAnd(t0, t1) ==
    Bit(t0, 0) * Bit(t1, 0) + 2 * (Bit(t0, 1) * Bit(t1, 1))
        + 4 * (Bit(t0, 2) * Bit(t1, 2))

BitOr(t0, t1) ==
    LET or(x, y) == IF x + y > 0 THEN 1 ELSE 0
    IN  or(Bit(t0, 0), Bit(t1, 0)) + 2 * or(Bit(t0, 1), Bit(t1, 1))
            + 4 * or(Bit(t0, 2), Bit(t1, 2))

BitXor(t0, t1) ==
    ((Bit(t0, 0) + Bit(t1, 0)) % 2) + 2 * ((Bit(t0, 1) + Bit(t1, 1)) % 2)
        + 4 * ((Bit(t0, 2) + Bit(t1, 2)) % 2)

\* operator!(t): true if the transform is the Identity.
IsIdentity(t) == t = Identity

\* operator~(t): every bit inverted individually.
Complement(t) == BitXor(t, Rot180Transpose)

----------------------------------------------------------------------------
(* operator*(t1, t0): t0 is applied first, then t1. *)

\* Mutant: the operands taken in the opposite order (t1 applied first).
ComposeSwapped(t1, t0) ==
    LET reordered ==
            IF ~IsIdentity(BitAnd(t1, Transpose))
            THEN BitOr(BitOr(BitAnd(t0, Transpose),
                             IF ~IsIdentity(BitAnd(t0, HFlip))
                             THEN VFlip ELSE Identity),
                       IF ~IsIdentity(BitAnd(t0, VFlip))
                       THEN HFlip ELSE Identity)
            ELSE t0
    IN  BitXor(reordered, t1)

\* Mutant: the bits of the two operands xor-ed without any reordering.
ComposeXor(t1, t0) == BitXor(t1, t0)

\* Mutant: t1's vertical flip is not turned into a horizontal flip.
ComposeNoVSwap(t1, t0) ==
    LET reordered ==
            IF ~IsIdentity(BitAnd(t0, Transpose))
            THEN BitOr(BitAnd(t1, Transpose),
                       IF ~IsIdentity(BitAnd(t1, HFlip))
                       THEN VFlip ELSE Identity)
            ELSE t1
    IN  BitXor(reordered, t0)

\* Mutant: the reordering is decided by t1's transpose bit instead of t0's.
ComposeWrongTest(t1, t0) ==
    LET reordered ==
            IF ~IsIdentity(BitAnd(t1, Transpose))
            THEN BitOr(BitOr(BitAnd(t1, Transpose),
                             IF ~IsIdentity(BitAnd(t1, HFlip))
                             THEN VFlip ELSE Identity),
                       IF ~IsIdentity(BitAnd(t1, VFlip))
                       THEN HFlip ELSE Identity)
            ELSE t1
    IN  BitXor(reordered, t0)

Compose(t1, t0) ==
    LET reordered ==
            IF ~IsIdentity(BitAnd(t0, Transpose))
            THEN BitOr(BitOr(BitAnd(t1, Transpose),
                             IF ~IsIdentity(BitAnd(t1, HFlip))
                             THEN VFlip ELSE Identity),
                       IF ~IsIdentity(BitAnd(t1, VFlip))
                       THEN HFlip ELSE Identity)
            ELSE t1
    IN  BitXor(reordered, t0)

----------------------------------------------------------------------------
(* operator-(t): lookup in the table of inverses. *)

\* Mutant: the table in plain value order, every transform its own inverse.
inversesAllSelf ==
    <<Identity, HFlip, VFlip, HVFlip, Transpose, Rot270, Rot90,
      Rot180Transpose>>

\* Mutant: the table of bitwise complements in place of the inverses.
inversesComplement ==
    <<Rot180Transpose, Rot90, Rot270, Transpose, HVFlip, VFlip, HFlip,
      Identity>>

\* Mutant: the two transposing reflections exchanged as well.
inversesDiagonals ==
    <<Identity, HFlip, VFlip, HVFlip, Rot180Transpose, Rot90, Rot270,
      Transpose>>

inverses ==
    <<Identity, HFlip, VFlip, HVFlip, Transpose, Rot90, Rot270,
      Rot180Transpose>>

Inverse(t) == inverses[t + 1]

----------------------------------------------------------------------------
(* transformFromRotation(angle, &success) *)

\* The remainder of C++'s integer division, which truncates towards zero:
\* it has the sign of the dividend.
Rem(x, n) == IF x >= 0 THEN x % n ELSE -((-x) % n)

\* Mutant: a negative remainder is not brought back into [0, 360).
transformFromRotationNoWrap(angleDegrees) ==
    LET r == Rem(angleDegrees, 360)
    IN  CASE r = 0   -> [t |-> Identity, success |-> TRUE]
          [] r = 90  -> [t |-> Rot90, success |-> TRUE]
          [] r = 180 -> [t |-> Rot180, success |-> TRUE]
          [] r = 270 -> [t |-> Rot270, success |-> TRUE]
          [] OTHER   -> [t |-> Identity, success |-> FALSE]

\* Mutant: the angle is not reduced modulo 360.
transformFromRotationNoModulo(angleDegrees) ==
    LET r == IF angleDegrees < 0 THEN angleDegrees + 360 ELSE angleDegrees
    IN  CASE r = 0   -> [t |-> Identity, success |-> TRUE]
          [] r = 90  -> [t |-> Rot90, success |-> TRUE]
          [] r = 180 -> [t |-> Rot180, success |-> TRUE]
          [] r = 270 -> [t |-> Rot270, success |-> TRUE]
          [] OTHER   -> [t |-> Identity, success |-> FALSE]

transformFromRotation(angleDegrees) ==
    LET r0 == Rem(angleDegrees, 360)
        r  == IF r0 < 0 THEN r0 + 360 ELSE r0
    IN  CASE r = 0   -> [t |-> Identity, success |-> TRUE]
          [] r = 90  -> [t |-> Rot90, success |-> TRUE]
          [] r = 180 -> [t |-> Rot180, success |-> TRUE]
          [] r = 270 -> [t |-> Rot270, success |-> TRUE]
          [] OTHER   -> [t |-> Identity, success |-> FALSE]

----------------------------------------------------------------------------
(* transformToString(t): lookup in the table of names. *)

\* Mutant: the names laid out by rotation magnitude, rot90 before rot270.
stringsByMagnitude ==
    <<"identity", "hflip", "vflip", "hvflip", "transpose", "rot90",
      "rot270", "rot180transpose">>

strings ==
    <<"identity", "hflip", "vflip", "hvflip", "transpose", "rot270",
      "rot90", "rot180transpose">>

transformToString(t) == strings[t + 1]

----------------------------------------------------------------------------
(* The documented effect of each transform on the rectangle A-B/C-D.  An   *)
(* image is the sequence of its corners: top left, top right, bottom left, *)
(* bottom right.                                                           *)

inputImage == <<"A", "B", "C", "D">>

\* The output image that the enum documentation draws for each value.
nominalEffect ==
    << <<"A", "B", "C", "D">>,    \* Identity
       <<"B", "A", "D", "C">>,    \* HFlip
       <<"C", "D", "A", "B">>,    \* VFlip
       <<"D", "C", "B", "A">>,    \* HVFlip
       <<"A", "C", "B", "D">>,    \* Transpose
       <<"B", "D", "A", "C">>,    \* Rot270
       <<"C", "A", "D", "B">>,    \* Rot90
       <<"D", "B", "C", "A">> >>  \* Rot180Transpose

\* The place of corner l in the input image.
CornerIndex(l) == CHOOSE i \in 1..4 : inputImage[i] = l

\* The image that transform t makes of image img: the corner that the
\* documentation shows at place i of the output is the one found in img at
\* the place it has in the input.
ApplyEffect(t, img) ==
    [i \in 1..4 |-> img[CornerIndex(nominalEffect[t + 1][i])]]

----------------------------------------------------------------------------
(* The caller. *)

\* The operands of transformFromRotation: every angle within MaxTurns
\* quarter turns of zero either way, and the two ends of the int range
\* that can be negated.
Angles == (-(90 * MaxTurns))..(90 * MaxTurns) \cup {-IntMax, IntMax}

QuarterTurns == {90 * k : k \in (-MaxTurns)..MaxTurns}

\* x + y is computed in an int without overflow.
FitsInt(x, y) ==
    /\ y >= 0 => x <= IntMax - y
    /\ y < 0 => x >= (-IntMax) - y

Has(k) == k \in DOMAIN res

Return(k, v) == res' = (k :> v) @@ res

Init ==
    /\ res = <<>>
    /\ \/ /\ expr = "ternary"
          /\ a \in Transforms /\ b \in Transforms /\ c \in Transforms
          /\ angle = 0 /\ angle2 = 0
       \/ /\ expr = "binary"
          /\ a \in Transforms /\ b \in Transforms /\ c = Identity
          /\ angle = 0 /\ angle2 = 0
       \/ /\ expr = "unary"
          /\ a \in Transforms /\ b = Identity /\ c = Identity
          /\ angle = 0 /\ angle2 = 0
       \/ /\ expr = "rotation"
          /\ a = Identity /\ b = Identity /\ c = Identity
          /\ angle \in Angles /\ angle2 \in QuarterTurns

\* A step that calls once, with the operands unchanged.
Call(k, v) ==
    /\ ~Has(k)
    /\ Return(k, v)
    /\ UNCHANGED <<expr, a, b, c, angle, angle2>>

(* (a * b) * c and a * (b * c) *)
MulAB ==
    /\ expr \in {"ternary", "binary"}
    /\ Call("ab", Compose(a, b))

MulBC ==
    /\ expr = "ternary"
    /\ Call("bc", Compose(b, c))

MulAB_C ==
    /\ expr = "ternary"
    /\ Has("ab")
    /\ Call("ab_c", Compose(res["ab"], c))

MulA_BC ==
    /\ expr = "ternary"
    /\ Has("bc")
    /\ Call("a_bc", Compose(a, res["bc"]))

(* b * a, and the images that b, then a, and that a * b make of the input *)
MulBA ==
    /\ expr = "binary"
    /\ Call("ba", Compose(b, a))

ApplyRight ==
    /\ expr = "binary"
    /\ Call("right", ApplyEffect(b, inputImage))

ApplyLeft ==
    /\ expr = "binary"
    /\ Has("right")
    /\ Call("left", ApplyEffect(a, res["right"]))

ApplyComposed ==
    /\ expr = "binary"
    /\ Has("ab")
    /\ Call("composed", ApplyEffect(res["ab"], inputImage))

(* -a, a * -a, -a * a, Identity * a, a * Identity, ~a, ~~a, the name of a *)
Neg ==
    /\ expr = "unary"
    /\ Call("inv", Inverse(a))

MulAInv ==
    /\ expr = "unary"
    /\ Has("inv")
    /\ Call("a_inv", Compose(a, res["inv"]))

MulInvA ==
    /\ expr = "unary"
    /\ Has("inv")
    /\ Call("inv_a", Compose(res["inv"], a))

MulIdA ==
    /\ expr = "unary"
    /\ Call("id_a", Compose(Identity, a))

MulAId ==
    /\ expr = "unary"
    /\ Call("a_id", Compose(a, Identity))

Not ==
    /\ expr = "unary"
    /\ Call("not", Complement(a))

NotNot ==
    /\ expr = "unary"
    /\ Has("not")
    /\ Call("notnot", Complement(res["not"]))

NameOf ==
    /\ expr = "unary"
    /\ Call("name", transformToString(a))

(* Rotations by angle, angle2, angle + angle2 and -angle *)
FromRotation ==
    /\ expr = "rotation"
    /\ Call("rot", transformFromRotation(angle))

FromRotation2 ==
    /\ expr = "rotation"
    /\ Call("rot2", transformFromRotation(angle2))

FromRotationSum ==
    /\ expr = "rotation"
    /\ FitsInt(angle, angle2)
    /\ Call("rotsum", transformFromRotation(angle + angle2))

FromRotationNeg ==
    /\ expr = "rotation"
    /\ Call("rotneg", transformFromRotation(-angle))

MulRot ==
    /\ expr = "rotation"
    /\ Has("rot")
    /\ Has("rot2")
    /\ Call("rotmul", Compose(res["rot"].t, res["rot2"].t))

NegRot ==
    /\ expr = "rotation"
    /\ Has("rot")
    /\ Call("rotinv", Inverse(res["rot"].t))

Next ==
    \/ MulAB \/ MulBC \/ MulAB_C \/ MulA_BC
    \/ MulBA \/ ApplyRight \/ ApplyLeft \/ ApplyComposed
    \/ Neg \/ MulAInv \/ MulInvA \/ MulIdA \/ MulAId
    \/ Not \/ NotNot \/ NameOf
    \/ FromRotation \/ FromRotation2 \/ FromRotationSum \/ FromRotationNeg
    \/ MulRot \/ NegRot

Spec == Init /\ [][Next]_vars

----------------------------------------------------------------------------
(* Properties. *)

\* C1: the image that a * b makes of the input image is the image obtained
\* by applying b to the input image first and then a to the result, each
\* transform acting as the enum documentation draws it.
C1_CompositionOrder ==
    (Has("composed") /\ Has("left")) => res["composed"] = res["left"]

\* Transpose * HFlip: HFlip first gives B-A/D-C, Transpose of that gives
\* B-D/A-C, which is the picture of Rot270.
C1_Witness ==
    /\ a = Transpose /\ b = HFlip
    /\ Has("composed") /\ Has("left")
    /\ res["right"] = <<"B", "A", "D", "C">>
    /\ res["left"] = <<"B", "D", "A", "C">>
    /\ res["composed"] = nominalEffect[Rot270 + 1]

\* C2: composition is associative, (a * b) * c = a * (b * c) for all 512
\* triples of transforms.
C2_Associative ==
    (Has("ab_c") /\ Has("a_bc")) => res["ab_c"] = res["a_bc"]

C2_Witness ==
    /\ a = Rot90 /\ b = HFlip /\ c = Transpose
    /\ Has("ab_c") /\ Has("a_bc")
    /\ res["ab"] = Rot180Transpose /\ res["bc"] = Rot90
    /\ res["ab_c"] = HVFlip /\ res["a_bc"] = HVFlip

\* C3: the inverse is two-sided, t * -t = Identity and -t * t = Identity
\* for every transform t.
C3_TwoSidedInverse ==
    /\ Has("a_inv") => res["a_inv"] = Identity
    /\ Has("inv_a") => res["inv_a"] = Identity

C3_Witness ==
    /\ a = Rot90
    /\ Has("a_inv") /\ Has("inv_a")
    /\ res["inv"] # a
    /\ res["a_inv"] = Identity /\ res["inv_a"] = Identity

\* C4: Identity is the two-sided neutral element, Identity * t = t and
\* t * Identity = t for every transform t.
C4_IdentityNeutral ==
    /\ Has("id_a") => res["id_a"] = a
    /\ Has("a_id") => res["a_id"] = a

C4_Witness ==
    /\ a = Rot270
    /\ Has("id_a") /\ Has("a_id")
    /\ res["id_a"] = Rot270 /\ res["a_id"] = Rot270

\* C5: composition is not commutative: Transpose * HFlip is Rot270 while
\* HFlip * Transpose is Rot90.
C5_NonCommutative ==
    (expr = "binary" /\ a = Transpose /\ b = HFlip) =>
        /\ Has("ab") => res["ab"] = Rot270 /\ res["ab"] = 5
        /\ Has("ba") => res["ba"] = Rot90 /\ res["ba"] = 6
        /\ (Has("ab") /\ Has("ba")) => res["ab"] # res["ba"]

C5_Witness ==
    /\ expr = "binary" /\ a = Transpose /\ b = HFlip
    /\ Has("ab") /\ Has("ba")
    /\ res["ab"] = Rot270 /\ res["ba"] = Rot90

\* C6: transformFromRotation is total with a success flag.  The angle is
\* reduced to [0, 360), a negative truncated remainder having 360 added;
\* 0, 90, 180 and 270 give Identity, Rot90, Rot180 = HVFlip and Rot270 with
\* success, every other angle gives Identity without success.  So success
\* is true exactly for the multiples of 90.
C6_FromRotationTotal ==
    Has("rot") =>
        LET m == angle % 360
            r == Rem(angle, 360)
        IN  /\ m \in 0..359
            /\ m = IF r < 0 THEN r + 360 ELSE r
            /\ m = 0 => res["rot"] = [t |-> Identity, success |-> TRUE]
            /\ m = 90 => res["rot"] = [t |-> Rot90, success |-> TRUE]
            /\ m = 180 => res["rot"] = [t |-> HVFlip, success |-> TRUE]
            /\ m = 270 => res["rot"] = [t |-> Rot270, success |-> TRUE]
            /\ m \notin {0, 90, 180, 270} =>
                   res["rot"] = [t |-> Identity, success |-> FALSE]
            /\ res["rot"].success <=> (angle % 90 = 0)
            /\ angle = -90 => res["rot"] = [t |-> Rot270, success |-> TRUE]
            /\ angle = 450 => res["rot"] = [t |-> Rot90, success |-> TRUE]
            /\ angle = 45 => res["rot"] = [t |-> Identity, success |-> FALSE]

C6_Witness ==
    /\ angle = -90
    /\ Has("rot")
    /\ Rem(angle, 360) < 0
    /\ res["rot"] = [t |-> Rot270, success |-> TRUE]

\* C7 as stated: the bitwise complement maps x to 7 - x, is an involution,
\* and differs from the inverse, complement(HFlip) being Rot180Transpose
\* while inverse(HFlip) is HFlip.
C7_ComplementAsStated ==
    /\ Has("not") => res["not"] = 7 - a
    /\ Has("notnot") => res["notnot"] = a
    /\ (a = HFlip /\ Has("not")) => res["not"] = Rot180Transpose
    /\ (a = HFlip /\ Has("inv")) => res["inv"] = HFlip

\* C7: the bitwise complement maps x to 7 - x, is an involution, and
\* differs from the inverse, complement(HFlip) being Rot90 (value 6) while
\* inverse(HFlip) is HFlip.
C7_Complement ==
    /\ Has("not") => res["not"] = 7 - a
    /\ Has("notnot") => res["notnot"] = a
    /\ (a = HFlip /\ Has("not")) => res["not"] = Rot90 /\ res["not"] = 6
    /\ (a = HFlip /\ Has("inv")) => res["inv"] = HFlip
    /\ (a = HFlip /\ Has("not") /\ Has("inv")) => res["not"] # res["inv"]

C7_Witness ==
    /\ a = HFlip
    /\ Has("not") /\ Has("notnot") /\ Has("inv")
    /\ res["not"] = Rot90 /\ res["notnot"] = HFlip /\ res["inv"] = HFlip

\* C8: the table of inverses exchanges the two quarter turns only,
\* -Rot90 = Rot270, -Rot270 = Rot90, and -t = t for the six other values.
C8_InverseTable ==
    Has("inv") =>
        /\ a = Rot90 => res["inv"] = Rot270
        /\ a = Rot270 => res["inv"] = Rot90
        /\ a \in {Identity, HFlip, VFlip, HVFlip, Transpose, Rot180Transpose}
               => res["inv"] = a

C8_Witness ==
    /\ a = Rot270
    /\ Has("inv")
    /\ res["inv"] = Rot90

\* C9: transformToString is a lookup by bit pattern: the values 0..7 give
\* identity, hflip, vflip, hvflip, transpose, rot270, rot90 and
\* rot180transpose, so Rot90 gives "rot90" and Rot270 gives "rot270"; the
\* eight names are pairwise distinct, and "rot0" and "rot180" never come out.
C9_ToString ==
    /\ Has("name") =>
           /\ a = 0 => res["name"] = "identity"
           /\ a = 1 => res["name"] = "hflip"
           /\ a = 2 => res["name"] = "vflip"
           /\ a = 3 => res["name"] = "hvflip"
           /\ a = 4 => res["name"] = "transpose"
           /\ a = 5 => res["name"] = "rot270"
           /\ a = 6 => res["name"] = "rot90"
           /\ a = 7 => res["name"] = "rot180transpose"
           /\ a = Rot90 => res["name"] = "rot90"
           /\ a = Rot270 => res["name"] = "rot270"
           /\ res["name"] \notin {"rot0", "rot180"}
    /\ \A s, t \in Transforms :
           s # t => transformToString(s) # transformToString(t)

C9_Witness ==
    /\ a = Rot90
    /\ Has("name")
    /\ res["name"] = "rot90"

\* C10: the rotation constructor agrees with composition and inversion:
\* for multiples of 90 x and y, negative ones and ones beyond +-360
\* included, the rotation by x + y is the rotation by x composed with the
\* rotation by y, with success, and the rotation by -x is the inverse of
\* the rotation by x.
C10_RotationHomomorphism ==
    (angle % 90 = 0 /\ angle2 % 90 = 0) =>
        /\ (Has("rotsum") /\ Has("rotmul")) =>
               res["rotsum"] = [t |-> res["rotmul"], success |-> TRUE]
        /\ (Has("rotneg") /\ Has("rotinv")) =>
               res["rotneg"] = [t |-> res["rotinv"], success |-> TRUE]

C10_Witness ==
    /\ angle = 450 /\ angle2 = -180
    /\ Has("rotsum") /\ Has("rotmul") /\ Has("rotneg") /\ Has("rotinv")
    /\ res["rot"].t = Rot90 /\ res["rot2"].t = Rot180
    /\ res["rotsum"] = [t |-> Rot270, success |-> TRUE]
    /\ res["rotmul"] = Rot270
    /\ res["rotneg"].t = Rot270 /\ res["rotinv"] = Rot270

====
